---- MODULE Spec2Model ----
(***************************************************************************)
(* The calendar generation engine of davidcoates/calendar:                 *)
(*   - src/src/cubic_calendar/core.py  (Season | Holiday blocks, the       *)
(*     timezone pass-through in _localize), called version "core";         *)
(*   - src/calendar.py (Season x Block{EARLY,MIDDLE,LATE,HOLIDAY}),        *)
(*     called version "calendar".                                          *)
(* A Gregorian date is an integer number of days since CANONICAL_EPOCH     *)
(* (2024-09-22, a Sunday); an instant is an integer number of ticks,       *)
(* TicksPerDay ticks to the civil day.                                     *)
(***************************************************************************)
EXTENDS Integers, Sequences, FiniteSets

\* ------------------------------------------------------------------ bounds

\* number of events in the solar event table
NumEvents == 4
\* resolution of an instant
TicksPerDay == 4
\* the sunrise oracle moves by one tick every DriftPeriod days
DriftPeriod == 45

\* -------------------------------------------------------- program constants

DAYS_IN_WEEK == 7
WEEKS_IN_SEASON == 12
DAYS_IN_SEASON == DAYS_IN_WEEK * WEEKS_IN_SEASON
DAYS_IN_BLOCK == 7
DAYS_IN_LEAP_BLOCK == DAYS_IN_BLOCK * 2
DAYS_IN_MONTH == 28
\* timedelta(days=14): the solar event search window
WINDOW_DAYS == 14
\* timedelta(days=2) in the leap week threshold
THRESHOLD_DAYS == 2

\* class Weekday (the values of datetime.weekday())
MONDAY == 0
SATURDAY == 5
SUNDAY == 6

\* class Season of calendar.py; core.py names the same values
\* GREENTIDE, SUNCREST, EMBERWANE, FROSTFALL
SPRING == 0
AUTUMN == 2
WINTER == 3

\* class Holiday of core.py
VERNAL_EQUINOX == 3

\* class Block of calendar.py
EARLY == 0
LATE == 2
HOLIDAY == 3

\* date(2024, 9, 22), as days since itself
CANONICAL_EPOCH == 0

CANONICAL_TIMEZONE == "Australia/Sydney"

Abs(x) == IF x < 0 THEN 0 - x ELSE x

\* ------------------------------------------------------------------ state

VARIABLES
    version,         \* which source file runs: "core" or "calendar"
    observer,        \* Calendar.latitude/longitude/timezone, as the oracle sees them
    SOLAR_EVENTS,    \* the solar event table: a sequence of [time, kind]
    pc,              \* position in Calendar.__post_init__
    err,             \* the exception that ended construction, "" if none
    gregorian_date,  \* the local variable of the generator / of _localize
    days,            \* the list built by _calc_canonical_days, mutated by _localize
    canonical,       \* the labels and boundaries the generator produced (history)
    offset,          \* _localize's offset
    i,               \* _localize's loop index
    qtime,           \* the argument of the last find_day call
    found            \* what it returned: a position in self.days, 0 for None

vars == <<version, observer, SOLAR_EVENTS, pc, err, gregorian_date, days,
          canonical, offset, i, qtime, found>>

NoQuery == 0 - 1000000

\* ------------------------------------------------------------ sunrise oracle

\* astral.sun.sunrise moves through the year; here by one tick per DriftPeriod
Drift(date) == (date \div DriftPeriod) % 2

\* the instant of astral.sun.sunrise(observer, date, tzinfo)
Sunrise(o, date) == date * TicksPerDay + o.phase + Drift(date)

\* the local calendar date the returned datetime carries in tzinfo: the date
\* asked for, or a neighbour when the timezone moves the instant across midnight
SunriseLocalDate(o, date) == date + o.skew

\* datetime.weekday() of a date: CANONICAL_EPOCH is a Sunday
DateWeekday(date) == (date + SUNDAY) % 7

CanonicalObserver ==
    [north |-> FALSE, tz |-> CANONICAL_TIMEZONE, phase |-> 0, skew |-> 0]

start_of_canonical_day(date) == Sunrise(CanonicalObserver, date)

end_of_canonical_day(date) == Sunrise(CanonicalObserver, date + 1)

start_of_day(o, date) == Sunrise(o, date)

\* faulty variant: the day ends one civil day after it starts
end_of_day_fixed_length(o, date) == Sunrise(o, date) + TicksPerDay

end_of_day(o, date) == Sunrise(o, date + 1)

\* ------------------------------------------------------------------- blocks

Season(v) == [kind |-> "Season", value |-> v]

Holiday(v) == [kind |-> "Holiday", value |-> v]

\* faulty variant: the season after a holiday is the holiday's own
next_block_same_season(block) ==
    IF block.kind = "Holiday"
    THEN Season(block.value)
    ELSE Holiday(block.value)

\* core.py next_block
next_block(block) ==
    IF block.kind = "Holiday"
    THEN Season((block.value + 1) % 4)
    ELSE Holiday(block.value)

\* Season.next of calendar.py
season_next(s) == (s + 1) % 4

\* Block.next of calendar.py
block_next(b) == (b + 1) % 4

\* Day.weekday
weekday(day) == (day.day_of_block + 5) % 7

\* --------------------------------------------------------------------- Day

\* the dataclass Day of core.py
core_Day(start, end, year, block, day_of_block, days_since_epoch) ==
    [start |-> start, end |-> end, year |-> year, block |-> block,
     day_of_block |-> day_of_block, days_since_epoch |-> days_since_epoch]

\* the dataclass Day of calendar.py
calendar_Day(start, end, year, season, block, day_of_block, days_since_epoch) ==
    [start |-> start, end |-> end, year |-> year, season |-> season,
     block |-> block, day_of_block |-> day_of_block,
     days_since_epoch |-> days_since_epoch]

\* ------------------------------------------------------ _calc_canonical_days

\* solar_event.time.date(): the calendar date an event instant falls on
EventDate(e) == e \div TicksPerDay

\* faulty variant: a window of one week
solar_events_near_one_week(date) ==
    {k \in 1..Len(SOLAR_EVENTS) :
        Abs(EventDate(SOLAR_EVENTS[k].time) - date) <= DAYS_IN_WEEK}

\* [ solar_event for solar_event in SOLAR_EVENTS
\*   if abs(solar_event.time.date() - gregorian_date) <= timedelta(days=14) ]
solar_events_near(date) ==
    {k \in 1..Len(SOLAR_EVENTS) :
        Abs(EventDate(SOLAR_EVENTS[k].time) - date) <= WINDOW_DAYS}

\* faulty variant: the end of the day after the candidate day
leap_week_threshold_following_day(date) == end_of_canonical_day(date + 1)

\* faulty variant: a list of several events unpacks too, to its first
unpacks_any(solar_events) == solar_events # {}

\* [ solar_event ] = solar_events: only a list of one event unpacks
unpacks(solar_events) == Cardinality(solar_events) = 1

\* leap_week_threshold = self._end_of_canonical_day(gregorian_date + timedelta(days=2))
leap_week_threshold(date) == end_of_canonical_day(date + THRESHOLD_DAYS)

Yield(labels) == [op |-> "yield", labels |-> labels]

Return == [op |-> "return"]

Raise(e) == [op |-> "raise", err |-> e]

\* core.py: year of the first day of the block after a holiday that ends at
\* its minimum length
core_transition_year(day) ==
    IF day.block = Holiday(VERNAL_EQUINOX) THEN day.year + 1 ELSE day.year

\* core.py: the elif condition, a block that ends without consulting the table
core_block_ends(day) ==
    \/ day.block.kind = "Holiday" /\ day.day_of_block = DAYS_IN_LEAP_BLOCK
    \/ day.block.kind = "Season" /\ day.day_of_block = DAYS_IN_SEASON

\* faulty variant: the table is consulted at the end of every week of a holiday
core_at_boundary_every_week(day) ==
    day.block.kind = "Holiday" /\ day.day_of_block % DAYS_IN_BLOCK = 0

\* core.py: the if condition, a holiday at its minimum length
core_at_boundary(day) ==
    day.block.kind = "Holiday" /\ day.day_of_block = DAYS_IN_BLOCK

\* core.py: one iteration of the while loop, from the previous day and the
\* incremented gregorian_date to the labels of the day it yields
core_step(day, date) ==
    IF core_at_boundary(day)
    THEN IF weekday(day) # SATURDAY
         THEN Raise("AssertionError")
         ELSE LET solar_events == solar_events_near(date) IN
              IF solar_events = {}
              THEN Return
              ELSE IF ~unpacks(solar_events)
              THEN Raise("ValueError")
              ELSE LET solar_event ==
                           SOLAR_EVENTS[CHOOSE k \in solar_events :
                                           \A j \in solar_events : k <= j]
                   IN IF solar_event.time > leap_week_threshold(date)
                      THEN Yield([year |-> day.year, block |-> day.block,
                                  day_of_block |-> day.day_of_block + 1])
                      ELSE Yield([year |-> core_transition_year(day),
                                  block |-> next_block(day.block),
                                  day_of_block |-> 1])
    ELSE IF core_block_ends(day)
    THEN Yield([year |-> day.year, block |-> next_block(day.block),
                day_of_block |-> 1])
    ELSE Yield([year |-> day.year, block |-> day.block,
                day_of_block |-> day.day_of_block + 1])

\* calendar.py: one iteration of the while loop
calendar_step(day, date) ==
    IF day.block # HOLIDAY
       /\ ~(day.block = LATE /\ day.day_of_block = DAYS_IN_MONTH)
    THEN Yield([year |-> day.year, season |-> day.season,
                block |-> IF day.day_of_block = DAYS_IN_MONTH
                          THEN block_next(day.block) ELSE day.block,
                day_of_block |-> (day.day_of_block % DAYS_IN_MONTH) + 1])
    ELSE IF day.block # HOLIDAY
    THEN Yield([year |-> day.year, season |-> day.season,
                block |-> HOLIDAY, day_of_block |-> 1])
    ELSE IF day.day_of_block % DAYS_IN_WEEK # 0
    THEN Yield([year |-> day.year, season |-> day.season,
                block |-> HOLIDAY, day_of_block |-> day.day_of_block + 1])
    ELSE IF weekday(day) # SATURDAY
    THEN Raise("AssertionError")
    ELSE LET solar_events == solar_events_near(date) IN
         IF solar_events = {}
         THEN Return
         ELSE IF ~unpacks(solar_events)
         THEN Raise("ValueError")
         ELSE LET solar_event ==
                      SOLAR_EVENTS[CHOOSE k \in solar_events :
                                      \A j \in solar_events : k <= j]
              IN IF solar_event.time > leap_week_threshold(date)
                 THEN Yield([year |-> day.year, season |-> day.season,
                             block |-> HOLIDAY,
                             day_of_block |-> day.day_of_block + 1])
                 ELSE Yield([year |-> IF day.season = WINTER
                                      THEN day.year + 1 ELSE day.year,
                             season |-> season_next(day.season),
                             block |-> EARLY, day_of_block |-> 1])

\* the Day the generator builds from the labels of a step
new_day(labels, date, days_since_epoch) ==
    IF version = "core"
    THEN core_Day(start_of_canonical_day(date), end_of_canonical_day(date),
                  labels.year, labels.block, labels.day_of_block,
                  days_since_epoch)
    ELSE calendar_Day(start_of_canonical_day(date), end_of_canonical_day(date),
                      labels.year, labels.season, labels.block,
                      labels.day_of_block, days_since_epoch)

\* faulty variant: day_of_block counted from 0
first_labels_zero_based ==
    IF version = "core"
    THEN [year |-> 1, block |-> Season(SPRING), day_of_block |-> 0]
    ELSE [year |-> 1, season |-> SPRING, block |-> EARLY, day_of_block |-> 0]

\* the first Day: year 1, first block, day_of_block 1, days_since_epoch 0
first_labels ==
    IF version = "core"
    THEN [year |-> 1, block |-> Season(SPRING), day_of_block |-> 1]
    ELSE [year |-> 1, season |-> SPRING, block |-> EARLY, day_of_block |-> 1]

\* assert Weekday(self._start_of_canonical_day(CANONICAL_EPOCH).weekday()) == SUNDAY
\* and the first yield
GenFirst ==
    /\ pc = "start"
    /\ IF DateWeekday(SunriseLocalDate(CanonicalObserver, CANONICAL_EPOCH)) # SUNDAY
       THEN /\ pc' = "error"
            /\ err' = "AssertionError"
            /\ UNCHANGED <<days, gregorian_date>>
       ELSE /\ pc' = "generate"
            /\ gregorian_date' = CANONICAL_EPOCH
            /\ days' = <<new_day(first_labels, CANONICAL_EPOCH, 0)>>
            /\ UNCHANGED err
    /\ UNCHANGED <<version, observer, SOLAR_EVENTS, canonical, offset, i,
                   qtime, found>>

\* one iteration of the generator's while loop; on return, list(...) in
\* _calc_days has the canonical days
GenStep ==
    /\ pc = "generate"
    /\ LET date == gregorian_date + 1
           day == days[Len(days)]
           r == IF version = "core" THEN core_step(day, date)
                ELSE calendar_step(day, date)
       IN CASE r.op = "yield" ->
                  /\ days' = Append(days,
                         new_day(r.labels, date, day.days_since_epoch + 1))
                  /\ gregorian_date' = date
                  /\ UNCHANGED <<pc, err, canonical>>
            [] r.op = "return" ->
                  /\ pc' = "localize"
                  /\ canonical' = days
                  /\ gregorian_date' = date
                  /\ UNCHANGED <<days, err>>
            [] r.op = "raise" ->
                  /\ pc' = "error"
                  /\ err' = r.err
                  /\ gregorian_date' = date
                  /\ UNCHANGED <<days, canonical>>
    /\ UNCHANGED <<version, observer, SOLAR_EVENTS, offset, i, qtime, found>>

\* ----------------------------------------------------------------- _localize

\* next(i for (i, day) in enumerate(days) if day.season == Season.AUTUMN):
\* core.py's Day has no attribute season; a next() that finds nothing raises
\* StopIteration, which leaves the generator as a RuntimeError
hemisphere_offset(ds, o) ==
    IF ~o.north
    THEN [op |-> "ok", offset |-> 0]
    ELSE IF version = "core"
    THEN Raise("AttributeError")
    ELSE LET autumn == {k \in 1..Len(ds) : ds[k].season = AUTUMN} IN
         IF autumn = {}
         THEN Raise("RuntimeError")
         ELSE [op |-> "ok",
               offset |-> (CHOOSE k \in autumn : \A j \in autumn : k <= j) - 1]

\* faulty variant: a Monday moves the offset on to the next Sunday
weekday_correction_forward(o, off) ==
    LET w == DateWeekday(SunriseLocalDate(o, CANONICAL_EPOCH + off)) IN
    CASE w = MONDAY -> [op |-> "ok", offset |-> off + 6]
      [] w = SUNDAY -> [op |-> "ok", offset |-> off]
      [] w = SATURDAY -> [op |-> "ok", offset |-> off + 1]
      [] OTHER -> Raise("AssertionError")

\* match Weekday(self._start_of_day(CANONICAL_EPOCH + timedelta(days=offset)).weekday())
weekday_correction(o, off) ==
    LET w == DateWeekday(SunriseLocalDate(o, CANONICAL_EPOCH + off)) IN
    CASE w = MONDAY -> [op |-> "ok", offset |-> off - 1]
      [] w = SUNDAY -> [op |-> "ok", offset |-> off]
      [] w = SATURDAY -> [op |-> "ok", offset |-> off + 1]
      [] OTHER -> Raise("AssertionError")

\* the offset _localize settles on before its loop, with its two assertions
localize_offset(ds, o) ==
    LET h == hemisphere_offset(ds, o) IN
    IF h.op = "raise" THEN h
    ELSE LET c == weekday_correction(o, h.offset) IN
         IF c.op = "raise" THEN c
         ELSE IF DateWeekday(SunriseLocalDate(o, CANONICAL_EPOCH + c.offset)) # SUNDAY
         THEN Raise("AssertionError")
         ELSE IF ~(c.offset >= 0)
         THEN Raise("AssertionError")
         ELSE c

\* faulty variant: the day keeps its own labels, those of days[offset + i]
rebase_labels_own(ds, day, idx) == [day EXCEPT !.days_since_epoch = idx]

\* faulty variant: days_since_epoch is not reset
rebase_labels_keep_index(ds, day, idx) ==
    IF version = "core"
    THEN [day EXCEPT !.year = ds[idx + 1].year,
                     !.block = ds[idx + 1].block,
                     !.day_of_block = ds[idx + 1].day_of_block]
    ELSE [day EXCEPT !.year = ds[idx + 1].year,
                     !.season = ds[idx + 1].season,
                     !.block = ds[idx + 1].block,
                     !.day_of_block = ds[idx + 1].day_of_block]

\* the labels the loop body copies when offset > 0: those of days[i], read
\* from the list as it is at that iteration
rebase_labels(ds, day, idx) ==
    IF version = "core"
    THEN [day EXCEPT !.year = ds[idx + 1].year,
                     !.block = ds[idx + 1].block,
                     !.day_of_block = ds[idx + 1].day_of_block,
                     !.days_since_epoch = idx]
    ELSE [day EXCEPT !.year = ds[idx + 1].year,
                     !.season = ds[idx + 1].season,
                     !.block = ds[idx + 1].block,
                     !.day_of_block = ds[idx + 1].day_of_block,
                     !.days_since_epoch = idx]

\* the loop body of _localize: the object days[offset + i] after iteration i
rebased_day(ds, off, idx, o, date) ==
    LET day == [ds[off + idx + 1] EXCEPT !.start = start_of_day(o, date),
                                         !.end = end_of_day(o, date)]
    IN IF off > 0 THEN rebase_labels(ds, day, idx) ELSE day

\* core.py: if self.timezone == CANONICAL_TIMEZONE: yield from days; return
passes_through(o) == version = "core" /\ o.tz = CANONICAL_TIMEZONE

\* _localize up to its loop
LocalizeStart ==
    /\ pc = "localize"
    /\ IF passes_through(observer)
       THEN /\ pc' = "done"
            /\ UNCHANGED <<err, offset, i, gregorian_date>>
       ELSE LET r == localize_offset(days, observer) IN
            IF r.op = "raise"
            THEN /\ pc' = "error"
                 /\ err' = r.err
                 /\ UNCHANGED <<offset, i, gregorian_date>>
            ELSE /\ pc' = "rebase"
                 /\ offset' = r.offset
                 /\ i' = 0
                 /\ gregorian_date' = CANONICAL_EPOCH + r.offset
                 /\ UNCHANGED err
    /\ UNCHANGED <<version, observer, SOLAR_EVENTS, days, canonical, qtime, found>>

\* one iteration of for (i, day) in enumerate(days[offset:])
LocalizeStep ==
    /\ pc = "rebase"
    /\ i < Len(days) - offset
    /\ days' = [days EXCEPT ![offset + i + 1] =
                    rebased_day(days, offset, i, observer, gregorian_date)]
    /\ i' = i + 1
    /\ gregorian_date' = gregorian_date + 1
    /\ UNCHANGED <<version, observer, SOLAR_EVENTS, pc, err, canonical, offset,
                   qtime, found>>

\* the loop is exhausted: self.days = list(self._localize(days))
LocalizeReturn ==
    /\ pc = "rebase"
    /\ ~(i < Len(days) - offset)
    /\ pc' = "done"
    /\ UNCHANGED <<version, observer, SOLAR_EVENTS, err, gregorian_date, days,
                   canonical, offset, i, qtime, found>>

\* self.days: the objects of days[offset:], which is all of days when the
\* sequence passed through
self_days == SubSeq(days, offset + 1, Len(days))

\* ------------------------------------------------------------------ find_day

\* faulty variant: the interval is open at its start and closed at its end
contains_open_start(day, time) == day.start < time /\ time <= day.end

\* faulty variant: the interval is closed at its end
contains_closed(day, time) == day.start <= time /\ time <= day.end

\* the test of find_day's loop
contains(day, time) == day.start <= time /\ time < day.end

\* Calendar.find_day: the position of the first day that contains time,
\* 0 for None
find_day(ds, time) ==
    LET hits == {k \in 1..Len(ds) : contains(ds[k], time)} IN
    IF hits = {} THEN 0 ELSE CHOOSE k \in hits : \A j \in hits : k <= j

\* the days around which find_day is asked
ProbeDays(ds) ==
    {1, 2, Len(ds) \div 2, Len(ds) - 1, Len(ds)} \cap (1..Len(ds))

\* the instants find_day is asked for: the boundaries of the probed days and
\* their neighbours, and an instant 120 years after the last day
QueryTimes(ds) ==
    UNION {{ds[k].start - 1, ds[k].start, ds[k].start + 1,
            ds[k].end - 1, ds[k].end} : k \in ProbeDays(ds)}
    \cup {ds[Len(ds)].end + 120 * 365 * TicksPerDay}

FindDay ==
    /\ pc = "done"
    /\ \E time \in QueryTimes(self_days) :
          /\ qtime' = time
          /\ found' = find_day(self_days, time)
    /\ UNCHANGED <<version, observer, SOLAR_EVENTS, pc, err, gregorian_date,
                   days, canonical, offset, i>>

\* ------------------------------------------------------------------- inputs

OTHER_TIMEZONE == "Europe/London"

\* the canonical configuration; other places in the canonical timezone; places
\* in another timezone, whose sunrise falls on the date asked for or a neighbour
Observers ==
    {CanonicalObserver}
    \cup {[north |-> n, tz |-> CANONICAL_TIMEZONE, phase |-> 1, skew |-> 0] :
            n \in BOOLEAN}
    \cup {[north |-> n, tz |-> OTHER_TIMEZONE, phase |-> 2, skew |-> s] :
            n \in BOOLEAN, s \in {0 - 1, 0, 1}}

\* the instant k solar quarters after the epoch, delta days after the last
\* day of the k-th holiday at its minimum length
EventTime(k, delta) ==
    ((DAYS_IN_SEASON + DAYS_IN_BLOCK) * k + delta) * TicksPerDay
        + TicksPerDay \div 2

\* the k-th solstice or equinox after the epoch: the one that marks the end
\* of the k-th holiday, Holiday((k - 1) % 4)
EventAt(k, delta) == [time |-> EventTime(k, delta), kind |-> (k - 1) % 4]

OnTime == 0 - 1
Late == DAYS_IN_BLOCK - 2
VeryLate == DAYS_IN_BLOCK + 5

Table(special, delta) ==
    [k \in 1..NumEvents |-> EventAt(k, IF k = special THEN delta ELSE OnTime)]

\* every event on time, or one of them late, or the last one very late
Tables ==
    {Table(0, OnTime), Table(NumEvents, VeryLate)}
    \cup {Table(k, Late) : k \in 1..NumEvents}

\* an event on the second day after the candidate day: after that day's
\* sunrise and before the next
Borderline == THRESHOLD_DAYS

\* an event at the very instant of the leap week threshold of the first holiday
AtThreshold ==
    [time |-> Sunrise(CanonicalObserver,
                      DAYS_IN_SEASON + DAYS_IN_BLOCK + THRESHOLD_DAYS + 1),
     kind |-> 0]

\* the second holiday finds two events in its window
Ambiguous == Append(Table(0, OnTime), EventAt(2, Late))

\* the second holiday finds one event in its window, of the kind that marks
\* the end of the fourth
WrongKind ==
    [Table(0, OnTime) EXCEPT ![2] = [time |-> EventTime(2, OnTime), kind |-> 3]]

\* the tables of Tables, and tables with an event near the threshold, with
\* two events in one window, with an event of another kind, with one event
\* and with none
GenTables ==
    Tables
    \cup {Table(1, Borderline), Table(1, Borderline + 1),
          [Table(0, OnTime) EXCEPT ![1] = AtThreshold]}
    \cup {Ambiguous, WrongKind, SubSeq(Table(0, OnTime), 1, 1), <<>>}

\* places in another timezone whose sunrise falls on the date asked for, or
\* up to two dates away
WideObservers ==
    {[north |-> n, tz |-> OTHER_TIMEZONE, phase |-> 2, skew |-> s] :
        n \in BOOLEAN, s \in {0 - 2, 0 - 1, 0, 1, 2}}

\* ------------------------------------------------------------ specification

Init ==
    /\ version \in {"core", "calendar"}
    /\ observer \in Observers
    /\ SOLAR_EVENTS \in Tables
    /\ pc = "start"
    /\ err = ""
    /\ gregorian_date = CANONICAL_EPOCH
    /\ days = <<>>
    /\ canonical = <<>>
    /\ offset = 0
    /\ i = 0
    /\ qtime = NoQuery
    /\ found = 0

Next ==
    \/ GenFirst
    \/ GenStep
    \/ LocalizeStart
    \/ LocalizeStep
    \/ LocalizeReturn
    \/ FindDay

Spec == Init /\ [][Next]_vars

\* the canonical configuration over every table; the generator is driven to
\* its end by list(...) in _calc_days
TableInit ==
    /\ version \in {"core", "calendar"}
    /\ observer = CanonicalObserver
    /\ SOLAR_EVENTS \in GenTables
    /\ pc = "start"
    /\ err = ""
    /\ gregorian_date = CANONICAL_EPOCH
    /\ days = <<>>
    /\ canonical = <<>>
    /\ offset = 0
    /\ i = 0
    /\ qtime = NoQuery
    /\ found = 0

TableSpec == TableInit /\ [][Next]_vars /\ WF_vars(GenFirst \/ GenStep)

\* every observer of another timezone over two tables
ObserverInit ==
    /\ version \in {"core", "calendar"}
    /\ observer \in WideObservers
    /\ SOLAR_EVENTS \in {Table(0, OnTime), Table(1, Late)}
    /\ pc = "start"
    /\ err = ""
    /\ gregorian_date = CANONICAL_EPOCH
    /\ days = <<>>
    /\ canonical = <<>>
    /\ offset = 0
    /\ i = 0
    /\ qtime = NoQuery
    /\ found = 0

ObserverSpec == ObserverInit /\ [][Next]_vars

\* ------------------------------------------------------------------- claims

\* construction finished and self.days is the final Day sequence
Constructed == pc = "done"

\* the final sequence came out of _localize's loop
Localized == Constructed /\ ~passes_through(observer)

\* the season a day is labelled with
SeasonOf(day) == IF version = "core" THEN day.block.value ELSE day.season

IsHolidayDay(day) ==
    IF version = "core" THEN day.block.kind = "Holiday" ELSE day.block = HOLIDAY

\* (year, block, day_of_block), with the season calendar.py keeps beside block
LabelsOf(day) ==
    IF version = "core"
    THEN <<day.year, day.block, day.day_of_block>>
    ELSE <<day.year, day.season, day.block, day.day_of_block>>

C2_NorthernPhaseShift ==
    (Localized /\ observer.north) =>
        \A k \in 1..Len(self_days) :
            (SeasonOf(self_days[k]) - SeasonOf(canonical[offset + k])) % 4 = 2

\* the last day of the Winter-season holiday followed by day 1 of the first
\* season
IsYearTurn(a, b) ==
    /\ IsHolidayDay(a)
    /\ SeasonOf(a) = WINTER
    /\ ~IsHolidayDay(b)
    /\ SeasonOf(b) = SPRING
    /\ b.day_of_block = 1

\* C3: in the final sequence the year never decreases, increases by exactly 1
\* at every step from the last day of the Winter-season holiday to day 1 of
\* the first season, and changes at no other step.
C3_YearMonotonic ==
    Constructed =>
        \A k \in 1..(Len(self_days) - 1) :
            IF IsYearTurn(self_days[k], self_days[k + 1])
            THEN self_days[k + 1].year = self_days[k].year + 1
            ELSE self_days[k + 1].year = self_days[k].year

\* C4: in the final sequence each day ends where the next one starts, and
\* each day starts before it ends.
C4_Contiguity ==
    Constructed =>
        /\ \A k \in 1..(Len(self_days) - 1) :
              self_days[k].end = self_days[k + 1].start
        /\ \A k \in 1..Len(self_days) :
              self_days[k].start < self_days[k].end

\* a localized sequence in which the sunrise has moved: some day is not
\* TicksPerDay long
C4_Witness ==
    /\ Localized
    /\ Len(self_days) >= 2
    /\ \E k \in 1..Len(self_days) :
          self_days[k].end - self_days[k].start # TicksPerDay

\* C5: in the final sequence, whatever offset the Localizer chose, the
\* element at list position i has days_since_epoch = i.
C5_MonotonicIndex ==
    Constructed =>
        \A k \in 1..Len(self_days) : self_days[k].days_since_epoch = k - 1

\* a final sequence re-based with offset > 0
C5_Witness ==
    /\ Localized
    /\ offset > 0
    /\ Len(self_days) >= 2
    /\ self_days[2].days_since_epoch = 1

\* the generator of core.py has returned its sequence
CoreGenerated == version = "core" /\ pc = "localize"

\* C6: in the canonical sequence of the Season | Holiday generator, every
\* maximal run of days in one block counts day_of_block from 1 up by 1, and
\* ends at 84 in a Season and at 7 or 14 in a Holiday, the last run included.
C6_BlockLengths ==
    CoreGenerated =>
        \A k \in 1..Len(canonical) :
            LET day == canonical[k]
                first == k = 1 \/ canonical[k - 1].block # day.block
                last == k = Len(canonical) \/ canonical[k + 1].block # day.block
            IN /\ IF first
                  THEN day.day_of_block = 1
                  ELSE day.day_of_block = canonical[k - 1].day_of_block + 1
               /\ last =>
                     IF day.block.kind = "Season"
                     THEN day.day_of_block = DAYS_IN_SEASON
                     ELSE day.day_of_block \in {DAYS_IN_BLOCK, DAYS_IN_LEAP_BLOCK}

\* a canonical sequence with a holiday of 14 days and one of 7
C6_Witness ==
    /\ CoreGenerated
    /\ \E k \in 1..(Len(canonical) - 1) :
          /\ canonical[k].block.kind = "Holiday"
          /\ canonical[k].day_of_block = DAYS_IN_LEAP_BLOCK
          /\ canonical[k + 1].block.kind = "Season"
    /\ canonical[Len(canonical)].block.kind = "Holiday"
    /\ canonical[Len(canonical)].day_of_block = DAYS_IN_BLOCK

\* C7: the first day of every final sequence has day_of_block = 1 and the
\* derived weekday (day_of_block + 5) mod 7 = 6, Sunday; for the canonical
\* configuration it is year 1 in the first season.
C7_FirstDaySunday ==
    Constructed =>
        /\ self_days[1].day_of_block = 1
        /\ (self_days[1].day_of_block + 5) % 7 = SUNDAY
        /\ weekday(self_days[1]) = SUNDAY
        /\ observer = CanonicalObserver =>
              /\ self_days[1].year = 1
              /\ SeasonOf(self_days[1]) = SPRING
              /\ ~IsHolidayDay(self_days[1])

\* a final sequence that starts one day after the hemisphere offset, the
\* observer's sunrise there falling on a Saturday
C7_Witness ==
    /\ Localized
    /\ observer.skew = 0 - 1
    /\ offset % DAYS_IN_WEEK = 1
    /\ weekday(self_days[1]) = SUNDAY

\* find_day has been called
Queried == Constructed /\ qtime # NoQuery

\* C8: for every day d of the final sequence and every instant t with
\* d.start <= t < d.end, find_day(t) returns d and no other day contains t;
\* find_day(d.start) is d and find_day(d.end) is the day after d.
C8_FindDayRoundTrip ==
    Queried =>
        \A k \in 1..Len(self_days) :
            /\ (self_days[k].start <= qtime /\ qtime < self_days[k].end)
                  => found = k
            /\ qtime = self_days[k].start => found = k
            /\ (qtime = self_days[k].end /\ k < Len(self_days))
                  => found = k + 1

\* find_day was asked for the instant at which one day ends and the next
\* starts, in a localized sequence
C8_Witness ==
    /\ Queried
    /\ Localized
    /\ found > 1
    /\ qtime = self_days[found].start
    /\ qtime = self_days[found - 1].end

\* C9: find_day returns None for every instant before the first day's start
\* and for every instant at or after the last day's end, raises nothing and
\* leaves the Day sequence as it was.
C9_NotFoundOutside ==
    [][Constructed =>
          /\ pc' = "done"
          /\ err' = ""
          /\ self_days' = self_days
          /\ (\/ qtime' < self_days[1].start
              \/ qtime' >= self_days[Len(self_days)].end) => found' = 0]_vars

\* find_day was asked for the instant at which the last day ends, and
\* returned None
C9_Witness ==
    /\ Queried
    /\ qtime = self_days[Len(self_days)].end
    /\ found = 0

\* C10: when the observer's timezone is the canonical one, the sequence that
\* passes through is the sequence the offset, the weekday correction and the
\* re-base with the observer's sunrise produce for that observer.
C10_PassThroughIsRebase ==
    (Constructed /\ passes_through(observer)) =>
        LET r == localize_offset(canonical, observer) IN
        /\ r.op = "ok"
        /\ Len(self_days) = Len(canonical) - r.offset
        /\ \A k \in 1..Len(self_days) :
              /\ self_days[k].start
                    = start_of_day(observer, CANONICAL_EPOCH + r.offset + k - 1)
              /\ self_days[k].end
                    = end_of_day(observer, CANONICAL_EPOCH + r.offset + k - 1)
              /\ self_days[k].days_since_epoch = k - 1
              /\ LabelsOf(self_days[k]) =
                    LabelsOf(canonical[IF r.offset > 0
                                       THEN ((k - 1) % r.offset) + 1 ELSE k])


\* the generator is in its loop and has just yielded the last element of days
Generating == pc = "generate"

\* the day the generator yielded last, and the one before it
LastDay == days[Len(days)]

PrevDay == days[Len(days) - 1]

\* the Gregorian date of the day the generator yielded last
LastDate == CANONICAL_EPOCH + Len(days) - 1

\* the table events within 14 calendar days of a date
EventsWithin14Days(date) ==
    {k \in 1..Len(SOLAR_EVENTS) :
        /\ SOLAR_EVENTS[k].time \div TicksPerDay - date <= 14
        /\ date - SOLAR_EVENTS[k].time \div TicksPerDay <= 14}

\* the last day was decided at a holiday's minimum-length boundary, with
\* exactly one event in the window
DecidedAtBoundary ==
    /\ Generating
    /\ Len(days) >= 2
    /\ IsHolidayDay(PrevDay)
    /\ PrevDay.day_of_block = 7
    /\ Cardinality(EventsWithin14Days(LastDate)) = 1

TheEvent == SOLAR_EVENTS[CHOOSE k \in EventsWithin14Days(LastDate) : TRUE]

IsLeapDay ==
    /\ IsHolidayDay(LastDay)
    /\ SeasonOf(LastDay) = SeasonOf(PrevDay)
    /\ LastDay.day_of_block = 8

IsTransitionDay ==
    /\ ~IsHolidayDay(LastDay)
    /\ SeasonOf(LastDay) = (SeasonOf(PrevDay) + 1) % 4
    /\ LastDay.day_of_block = 1

\* C11 as stated: at a holiday's minimum-length boundary with exactly one
\* event e in the window, the generator inserts a leap week iff e is strictly
\* after the canonical sunrise of g + 2 days (g the candidate day's date), and
\* otherwise goes to the next block with day_of_block = 1.
C11_ThresholdTwoDays ==
    DecidedAtBoundary =>
        IF TheEvent.time > Sunrise(CanonicalObserver, LastDate + 2)
        THEN IsLeapDay
        ELSE IsTransitionDay

\* C11 amended: at a holiday's minimum-length boundary with exactly one
\* event e in the window, the generator inserts a leap week iff e is strictly
\* after the canonical sunrise of g + 3 days, the end of the canonical day of
\* date g + 2; otherwise it goes to the next block with day_of_block = 1.
C11_ThresholdThreeDays ==
    DecidedAtBoundary =>
        IF TheEvent.time > Sunrise(CanonicalObserver, LastDate + 3)
        THEN IsLeapDay
        ELSE IsTransitionDay

\* a leap week was inserted for an event within a day after the threshold
C11_Witness ==
    /\ DecidedAtBoundary
    /\ IsLeapDay
    /\ TheEvent.time > Sunrise(CanonicalObserver, LastDate + 3)
    /\ TheEvent.time < Sunrise(CanonicalObserver, LastDate + 4)

\* the generator returned: list(...) in _calc_days holds its days
Generated == pc \in {"localize", "rebase", "done"} \/ (pc = "error" /\ canonical # <<>>)

\* C12: canonical generation eventually ends, and it returns only at a step
\* where the previous day is day 7 of a holiday and no table event lies
\* within 14 calendar days of the candidate date; the last generated day is
\* a Saturday, day 7 of a holiday, and no day is generated afterwards.
C12_Termination ==
    /\ <>(pc \notin {"start", "generate"})
    /\ [](Generated =>
            /\ Len(canonical) = Len(days)
            /\ IsHolidayDay(canonical[Len(canonical)])
            /\ canonical[Len(canonical)].day_of_block = 7
            /\ (canonical[Len(canonical)].day_of_block + 5) % 7 = SATURDAY
            /\ EventsWithin14Days(CANONICAL_EPOCH + Len(canonical)) = {})

\* the generator returned after the table's last event, with a year of days
C12_Witness ==
    /\ pc = "localize"
    /\ Len(SOLAR_EVENTS) = NumEvents
    /\ Len(canonical) > NumEvents * (DAYS_IN_SEASON + DAYS_IN_BLOCK)
    /\ canonical[Len(canonical)].day_of_block = 7

\* C13: if at a holiday's minimum-length boundary more than one table event
\* lies within 14 calendar days of the candidate date, generation aborts with
\* an error and construction never yields a Day sequence.
C13_AmbiguousIsFatal ==
    [][/\ (/\ Generating
           /\ IsHolidayDay(LastDay)
           /\ LastDay.day_of_block = 7
           /\ Cardinality(EventsWithin14Days(LastDate + 1)) > 1)
          => (pc' = "error" /\ err' = "ValueError" /\ days' = days)
       /\ pc = "error" => pc' = "error"]_vars

\* generation stopped on two events in one window
C13_Witness ==
    /\ pc = "error"
    /\ err = "ValueError"
    /\ canonical = <<>>
    /\ Cardinality(EventsWithin14Days(gregorian_date)) = 2


\* the weekday of the observer's sunrise on a date, in the observer's timezone
SunriseWeekday(date) == DateWeekday(SunriseLocalDate(observer, date))

\* C14: with w the weekday of the observer's sunrise on CANONICAL_EPOCH +
\* offset, the offset is decremented by 1 if w is Monday, incremented by 1 if
\* w is Saturday, kept if w is Sunday, and localization aborts for any other
\* w; after the correction the observer's sunrise on CANONICAL_EPOCH + offset
\* is a Sunday; the loop never changes the offset.
C14_WeekdayCorrection ==
    [][/\ (/\ pc = "localize"
           /\ ~passes_through(observer)
           /\ hemisphere_offset(days, observer).op = "ok")
          => LET h == hemisphere_offset(days, observer).offset
                 w == SunriseWeekday(CANONICAL_EPOCH + h)
             IN /\ w \notin {MONDAY, SATURDAY, SUNDAY} => pc' = "error"
                /\ pc' = "rebase" =>
                      /\ w = MONDAY => offset' = h - 1
                      /\ w = SATURDAY => offset' = h + 1
                      /\ w = SUNDAY => offset' = h
                      /\ SunriseWeekday(CANONICAL_EPOCH + offset') = SUNDAY
       /\ pc = "rebase" => offset' = offset]_vars

\* a Northern re-base under way whose offset was decremented for a Monday
C14_Witness ==
    /\ pc = "rebase"
    /\ i > 0
    /\ observer.north
    /\ SunriseWeekday(CANONICAL_EPOCH + offset + 1) = MONDAY
    /\ offset % 7 = 6

\* C15: on a block transition of the generator the year increments by 1 if
\* and only if the outgoing block is the Winter-season holiday, whether that
\* holiday ends at day 7 or, extended by a leap week, at day 14.
C15_YearRule ==
    (/\ Generating
     /\ Len(days) >= 2
     /\ LastDay.day_of_block = 1) =>
        IF IsHolidayDay(PrevDay) /\ SeasonOf(PrevDay) = WINTER
        THEN LastDay.year = PrevDay.year + 1
        ELSE LastDay.year = PrevDay.year

\* the block core.py's order puts after a block
BlockAfter(block) ==
    IF block.kind = "Season"
    THEN [kind |-> "Holiday", value |-> block.value]
    ELSE [kind |-> "Season", value |-> (block.value + 1) % 4]

\* C16: consecutive canonical days (d, d') of core.py either stay in the
\* block with day_of_block + 1, or go to the next block of the cycle Season k,
\* Holiday k, Season (k + 1) mod 4 with day_of_block = 1; the first day is day
\* 1 of Season 0 and day_of_block is always >= 1.
C16_BlockSuccession ==
    (Generating /\ version = "core") =>
        /\ days[1].block = [kind |-> "Season", value |-> 0]
        /\ days[1].day_of_block = 1
        /\ LastDay.day_of_block >= 1
        /\ Len(days) >= 2 =>
              \/ /\ LastDay.block = PrevDay.block
                 /\ LastDay.day_of_block = PrevDay.day_of_block + 1
              \/ /\ LastDay.block = BlockAfter(PrevDay.block)
                 /\ LastDay.day_of_block = 1

\* the generator of core.py went from the Winter holiday to the first season
C16_Witness ==
    /\ Generating
    /\ version = "core"
    /\ Len(days) >= 2
    /\ PrevDay.block = [kind |-> "Holiday", value |-> 3]
    /\ LastDay.block = [kind |-> "Season", value |-> 0]
    /\ LastDay.day_of_block = 1

\* C17: in the final sequence the derived weekday of each day is the cyclic
\* successor of the derived weekday of the day before, whatever offset and
\* correction the Localizer applied; and the generator's assertion that a
\* holiday-boundary day is a Saturday never fails.
C17_WeekStructure ==
    /\ Constructed =>
          \A k \in 1..(Len(self_days) - 1) :
              weekday(self_days[k + 1])
                  = (weekday(self_days[k]) + 1) % 7
    /\ ~(pc = "error" /\ err = "AssertionError" /\ canonical = <<>>)

\* C18: a Southern observer whose sunrise on the epoch date falls on a
\* Monday, a Saturday or a Sunday passes the assertion offset >= 0:
\* localization does not abort.
C18_SouthernOffsetNotNegative ==
    (pc = "error" /\ canonical # <<>> /\ ~observer.north) =>
        SunriseWeekday(CANONICAL_EPOCH) \notin {MONDAY, SATURDAY, SUNDAY}

\* C19: in the canonical sequence of calendar.py every holiday has exactly 7
\* or 14 days.
C19_AtMostOneLeapWeek ==
    (version = "calendar" /\ pc = "localize") =>
        \A k \in 1..Len(canonical) :
            (/\ canonical[k].block = HOLIDAY
             /\ (k = Len(canonical) \/ canonical[k + 1].block # HOLIDAY))
                => canonical[k].day_of_block \in {7, 14}

\* C20: when the generator goes on from a holiday's minimum-length boundary,
\* the window holds exactly one event of the kind that marks the end of that
\* holiday, and that event decided between leap week and transition; events
\* of other kinds are neither counted nor used.
C20_EventOfTheHolidaysKind ==
    (/\ Generating
     /\ Len(days) >= 2
     /\ IsHolidayDay(PrevDay)
     /\ PrevDay.day_of_block = 7) =>
        LET candidates == {k \in EventsWithin14Days(LastDate) :
                              SOLAR_EVENTS[k].kind = SeasonOf(PrevDay)}
        IN /\ Cardinality(candidates) = 1
           /\ \A k \in candidates :
                 IsLeapDay <=>
                    SOLAR_EVENTS[k].time
                        > Sunrise(CanonicalObserver, LastDate + 3)

====
